---- MODULE Spec2Model ----
(***************************************************************************)
(* Model of the test execution engine of marrakech:                        *)
(*   packages/core/src/testing/PromptWithTests.ts  (run, runSingle)        *)
(*   packages/core/src/testing/matchers.ts         (match, matchPartial)   *)
(*   packages/core/src/executors/VercelAIExecutor.ts (createVercelAIExecutor)*)
(*   AnalyticsClient (unnamed/part_020)            (track*, flush)         *)
(*   packages/cli/src/watch/Watcher.ts             (Watcher)               *)
(*   packages/cli/src/runner/TestRunner.ts         (TestRunner)            *)
(*                                                                         *)
(* Spec        one call of PromptWithTests.run(options)                    *)
(* SpecSingle  one direct call of PromptWithTests.runSingle(...)           *)
(* SpecMatch   one call of match(actual, expected)                         *)
(* SpecWatch   Watcher.start; FairSpecWatch adds timers and settling runs  *)
(* SpecCli     one call of TestRunner.findAndRun(pattern)                  *)
(* SpecExec    one call of an Executor, with the steps array               *)
(* SpecPartial matchPartial, called again after a key was added or removed *)
(* SpecClient  the AnalyticsClient; FairSpecClient adds the flush timer    *)
(***************************************************************************)
EXTENDS Integers, Sequences, FiniteSets, TLC

\* ------------------------------------------------------------------------
\* Bounds of the model
\* ------------------------------------------------------------------------
MaxCases == 3
MaxExecutors == 2
MaxInvocations == 4
MaxLen == 2
MaxArrivals == 3
MaxFiles == 2
MaxExports == 2
MaxSteps == 2
MaxTracks == 51

\* ------------------------------------------------------------------------
\* Program constants
\* ------------------------------------------------------------------------
DefaultTestTimeout == 30000
DefaultExecutorTimeout == 30000
ShortTimeout == 5000
LongTimeout == 60000
FlushThreshold == 50

\* ------------------------------------------------------------------------
\* JavaScript values (the JSON fragment plus undefined), tagged by type
\* ------------------------------------------------------------------------
Undef == [t |-> "undefined"]
Null == [t |-> "null"]
Str(s) == [t |-> "string", v |-> s]
Num(n) == [t |-> "number", v |-> n]
Arr(s) == [t |-> "array", v |-> s]
Obj(f) == [t |-> "object", v |-> f]

\* typeof x
TypeOf(x) == IF x.t \in {"array", "object", "null"} THEN "object" ELSE x.t

\* x == null
IsNullish(x) == x.t \in {"undefined", "null"}

\* a === b on values without identity: primitives compare by type and value
StrictEquals(a, b) ==
  /\ a.t = b.t
  /\ a.t \notin {"array", "object"}
  /\ a = b

\* Object.keys(x): an array's keys are its indices as strings
ArrayKey(i) == ToString(i - 1)
Keys(x) ==
  IF x.t = "array" THEN {ArrayKey(i) : i \in 1..Len(x.v)} ELSE DOMAIN x.v

\* x[key]
Get(x, k) ==
  IF x.t = "array"
  THEN x.v[CHOOSE i \in 1..Len(x.v) : ArrayKey(i) = k]
  ELSE x.v[k]

RECURSIVE deepEqual(_, _)
deepEqual(a, b) ==
  IF StrictEquals(a, b) THEN TRUE
  ELSE IF IsNullish(a) \/ IsNullish(b) THEN StrictEquals(a, b)
  ELSE IF TypeOf(a) # TypeOf(b) THEN FALSE
  ELSE IF a.t = "array" /\ b.t = "array"
    THEN /\ Len(a.v) = Len(b.v)
         /\ \A i \in 1..Len(a.v) : deepEqual(a.v[i], b.v[i])
  ELSE IF TypeOf(a) = "object" /\ TypeOf(b) = "object"
    THEN /\ Cardinality(Keys(a)) = Cardinality(Keys(b))
         /\ \A k \in Keys(a) : k \in Keys(b) /\ deepEqual(Get(a, k), Get(b, k))
  ELSE FALSE

\* match(actual, expected): deepEqual never throws on these values
match(actual, expected) == deepEqual(actual, expected)

\* ------------------------------------------------------------------------
\* Inputs
\* ------------------------------------------------------------------------
Paris == Obj([city |-> Str("Paris")])
London == Obj([city |-> Str("London")])
ParisWithExtra == Obj([city |-> Str("Paris"), country |-> Str("France")])

\* a test case: {input, expect?, timeout?}; a missing field is undefined
TestCase(n, e, tmo) == [input |-> n, expect |-> e, timeout |-> tmo]

\* an executor config: {model, timeout?}
Config(m, tmo) == [model |-> m, timeout |-> tmo]

\* an optional list (a parameter or field that may be undefined)
NoList == [given |-> FALSE, list |-> <<>>]
List(s) == [given |-> TRUE, list |-> s]

SeqUpTo(S, n) == UNION {[1..k -> S] : k \in 0..n}

\* executor configs: AI SDK model objects and a bare string as model handles
SuiteConfigs ==
  {Config(Obj([modelId |-> Str("gpt-4")]), Undef),
   Config(Obj([modelId |-> Str("gpt-4o")]), Undef),
   Config(Str("gpt-4"), Num(ShortTimeout))}

\* what generateText resolves to: {text, toolResults, toolCalls, finishReason}
ModelResult(txt, trs, ntc, fin) ==
  [text |-> txt, toolResults |-> trs, toolCalls |-> ntc, finishReason |-> fin]
ToolResult(r, o) == [result |-> r, output |-> o]

\* ------------------------------------------------------------------------
\* extractModelName (PromptWithTests.ts)
\* ------------------------------------------------------------------------
\* !x
Falsy(x) ==
  \/ IsNullish(x)
  \/ x.t = "string" /\ x.v = ""
  \/ x.t = "number" /\ x.v = 0
  \/ x.t = "boolean" /\ x.v = FALSE

\* String(x)
ToJSString(x) ==
  CASE x.t = "string" -> x.v
    [] x.t = "number" -> ToString(x.v)
    [] x.t = "undefined" -> "undefined"
    [] x.t = "null" -> "null"
    [] x.t = "array" -> "array"
    [] OTHER -> "[object Object]"

extractModelName(model) ==
  IF Falsy(model) THEN "unknown"
  ELSE IF model.t = "object" /\ "modelId" \in DOMAIN model.v
    THEN ToJSString(model.v["modelId"])
  ELSE IF model.t = "object" /\ "model" \in DOMAIN model.v
    THEN ToJSString(model.v["model"])
  ELSE IF ToJSString(model) = "[object Object]" THEN "unknown"
  ELSE ToJSString(model)

\* ------------------------------------------------------------------------
\* createVercelAIExecutor (VercelAIExecutor.ts): the result of one call
\* ------------------------------------------------------------------------
Min(S) == CHOOSE k \in S : \A j \in S : k <= j

\* x ?? d
OrDefault(x, d) == IF IsNullish(x) THEN d ELSE x.v

ExecutorTimeout(config) == OrDefault(config.timeout, DefaultExecutorTimeout)

\* a || b
OrElse(a, b) == IF Falsy(a) THEN b ELSE a

\* the final output taken from what generateText resolved to; with tool calls
\* but no tool results the output is the one recorded on the last step, which
\* onStepFinish found among that step's (absent) tool results: undefined
ExtractOutput(result) ==
  IF result.text # "" THEN Str(result.text)
  ELSE IF Len(result.toolResults) > 0
    THEN LET lastToolResult == result.toolResults[Len(result.toolResults)]
         IN OrElse(lastToolResult.result, lastToolResult.output)
  ELSE IF result.toolCalls > 0 THEN Undef
  ELSE Str("")

\* generateText resolved before the executor's timer
ExecutorReturn(result) ==
  [output |-> ExtractOutput(result),
   finishReason |-> result.finishReason,
   error |-> Undef]

\* the catch block: the timer or a rejection of generateText
ExecutorCatch(errorMessage) ==
  [output |-> Null,
   finishReason |-> IF errorMessage = "Execution timeout" THEN "timeout" ELSE "error",
   error |-> Str(errorMessage)]

\* ------------------------------------------------------------------------
\* runSingle (PromptWithTests.ts): the EvalResult of one attempt
\* ------------------------------------------------------------------------
TestTimeout(testCase) == OrDefault(testCase.timeout, DefaultTestTimeout)

\* a runSingle that calls the matcher even when the case has no expect
RunSingleResultAlwaysMatching(testCase, executionResult, name, executionId) ==
  IF executionResult.finishReason = "error"
  THEN [input |-> testCase.input,
        output |-> Null,
        passed |-> FALSE,
        execution_id |-> executionId,
        error |-> executionResult.error,
        expected |-> testCase.expect,
        executor |-> name]
  ELSE [input |-> testCase.input,
        output |-> executionResult.output,
        passed |-> match(executionResult.output, testCase.expect),
        execution_id |-> executionId,
        error |-> Undef,
        expected |-> testCase.expect,
        executor |-> name]

\* a runSingle that treats an error result like any other result
RunSingleResultIgnoringError(testCase, executionResult, name, executionId) ==
  [input |-> testCase.input,
   output |-> executionResult.output,
   passed |-> IF testCase.expect.t # "undefined"
              THEN match(executionResult.output, testCase.expect)
              ELSE TRUE,
   execution_id |-> executionId,
   error |-> Undef,
   expected |-> testCase.expect,
   executor |-> name]

\* the executor's promise won the race with an ExecutionResult
RunSingleResult(testCase, executionResult, name, executionId) ==
  IF executionResult.finishReason = "error"
  THEN [input |-> testCase.input,
        output |-> Null,
        passed |-> FALSE,
        execution_id |-> executionId,
        error |-> executionResult.error,
        expected |-> testCase.expect,
        executor |-> name]
  ELSE [input |-> testCase.input,
        output |-> executionResult.output,
        passed |-> IF testCase.expect.t # "undefined"
                   THEN match(executionResult.output, testCase.expect)
                   ELSE TRUE,
        execution_id |-> executionId,
        error |-> Undef,
        expected |-> testCase.expect,
        executor |-> name]

\* a catch block that reports every error as the test timeout
RunSingleCatchAsTimeout(testCase, message, name, executionId) ==
  [input |-> testCase.input,
   output |-> Null,
   passed |-> FALSE,
   execution_id |-> executionId,
   error |-> Str("Test timeout"),
   expected |-> testCase.expect,
   executor |-> name]

\* the catch block: the test timer, or an executor that threw or rejected
RunSingleCatch(testCase, message, name, executionId) ==
  [input |-> testCase.input,
   output |-> Null,
   passed |-> FALSE,
   execution_id |-> executionId,
   error |-> Str(message),
   expected |-> testCase.expect,
   executor |-> name]

\* ------------------------------------------------------------------------
\* State
\* ------------------------------------------------------------------------
VARIABLES
  testCases,        \* this.testCases
  executorConfigs,  \* this.executorConfigs (may be undefined)
  options,          \* run(options): bail, executors, throwing callbacks
  sink,             \* how the analytics client takes a track call (SinkModes)
  modelReplies,     \* what the external model call may resolve to
  modelErrors,      \* the messages the external model call may reject with
  pc,               \* position of run(): start, loop, await, finalize, done, rejected;
                    \* "single" while runSingle is called directly, "idle" when unused
  index,            \* loop variable of run() (0-based)
  executors,        \* executor instances of this run: config and display name
  allResults,       \* allResults
  executorResults,  \* executorResults: display name -> bucket
  inv,              \* the runSingle calls of the current row, one per executor
  settleOrder,      \* executors of the current row in the order their calls settled
  nextId,           \* source of fresh execution ids
  calls,            \* executor invocations made so far: <<case index, executor>>
  events,           \* progress events handed to options.onProgress
  tracked,          \* track calls made on the analytics client, in order
  finalResults,     \* what run() resolved to
  runError,         \* what run() rejected with
  matcher,          \* one call of match or matchPartial: arguments and what it returned
  watchPc,          \* position of Watcher.start: constructed, initial, watching
  watcher,          \* the Watcher's fields isRunning and debounceTimer
  watchLog,         \* file events, key presses and findAndRun starts, in order
  bail,             \* TestRunner options.bail
  files,            \* the prompt files that findTestFiles found
  cliPc,            \* position of findAndRun: load, run, done
  fileIndex,        \* files loaded so far
  prompts,          \* what loadPrompts has collected
  promptIndex,      \* prompts run so far by runTests
  promptResults,    \* runTests' promptResults
  executed,         \* test cases executed, in this process or a child, in order
  runnerResults,    \* what findAndRun resolved to
  exec,             \* one call of an Executor: the race, the steps array, what it returned
  client            \* the AnalyticsClient: its queue, its timer and what it sent

vars == <<testCases, executorConfigs, options, sink, modelReplies, modelErrors, pc, index,
          executors, allResults, executorResults, inv, settleOrder, nextId, calls,
          events, tracked, finalResults, runError, matcher, watchPc, watcher, watchLog,
          bail, files, cliPc, fileIndex, prompts, promptIndex, promptResults,
          executed, runnerResults, exec, client>>

inputVars == <<testCases, executorConfigs, options, sink, modelReplies, modelErrors>>

\* the state of run() and runSingle
suiteVars == <<inputVars, pc, index, executors, allResults, executorResults, inv,
               settleOrder, nextId, calls, events, tracked, finalResults, runError>>

\* with the state of the executor and of the analytics client
runVars == <<suiteVars, exec, client>>

NoResult == [none |-> TRUE]

\* the state of the Watcher and of the TestRunner
watchVars == <<watchPc, watcher, watchLog>>
cliVars == <<bail, files, cliPc, fileIndex, prompts, promptIndex, promptResults,
             executed, runnerResults>>

\* the state of the parts that take no step during run() and runSingle
elsewhere == <<matcher, watchVars, cliVars, exec, client>>

\* a part that is not in use
Idle == [idle |-> TRUE]
MatchIdle == matcher = Idle
ExecIdle == exec = Idle
ClientIdle == client = Idle
WatchIdle ==
  /\ watchPc = "idle"
  /\ watcher = Idle
  /\ watchLog = <<>>
CliIdle ==
  /\ bail = FALSE
  /\ files = <<>>
  /\ cliPc = "idle"
  /\ fileIndex = 0
  /\ prompts = <<>>
  /\ promptIndex = 0
  /\ promptResults = <<>>
  /\ executed = <<>>
  /\ runnerResults = NoResult
ElsewhereIdle == MatchIdle /\ WatchIdle /\ CliIdle /\ ExecIdle /\ ClientIdle

NoError == "none"
ConfigError == "No executors provided. Pass executors in .test() or run() options."
CallbackError == "callback threw"
SinkError == "analytics threw"

\* the analytics client: tracking, a client that throws on every track call,
\* and a client whose shouldTrack() is false (disabled, or no API key)
SinkModes == {"working", "throws", "disabled"}

\* what ended a runSingle call's wait: the step that settled a promise of its
\* race, with the message of the error if it was one
Cause(kind, message) == [kind |-> kind, message |-> message]
NoCause == Cause("none", "")

\* a runSingle call: its execution id, what the executor returned to it (if
\* the executor won the race), the EvalResult it resolved to and the cause
Pending(id) ==
  [status |-> "pending", execution_id |-> id, execution |-> NoResult, result |-> NoResult,
   cause |-> NoCause]
Settled(id, executionResult, r, cause) ==
  [status |-> "settled", execution_id |-> id, execution |-> executionResult, result |-> r,
   cause |-> cause]

\* rejections of the model call; a provider or a tool may word its own
\* timeout like the executor's
SingleErrors == {"API error", "Execution timeout"}

\* what prompt.toVercelAI may throw
PromptErrors == {"Invalid prompt"}

\* what an Executor written by the caller may resolve to or fail with
CustomResults ==
  {[output |-> Paris, finishReason |-> "stop", error |-> Undef],
   [output |-> Paris, finishReason |-> "error", error |-> Undef],
   [output |-> Null, finishReason |-> "error", error |-> Str("boom")],
   [output |-> Null, finishReason |-> "timeout", error |-> Str("slow")]}
CustomErrors == {"boom"}

\* rejections of the model call during a suite run
SuiteErrors == {"API error"}

\* replies of the model call during a suite run
SuiteReplies ==
  {ModelResult("", <<ToolResult(Paris, Undef)>>, 1, "stop"),
   ModelResult("", <<ToolResult(London, Undef)>>, 1, "stop")}

SuiteCases(n) == {TestCase(n, e, Undef) : e \in {Undef, Paris}}

\* the inputs of a run: only the first case may come without expect, the
\* suite lists a config once, a suite that is overridden has at most one
\* config of its own, and a failing analytics client meets runs with the
\* suite's configs and callbacks that do not throw
Init ==
  /\ \E k \in 0..MaxCases :
       testCases \in {s \in [1..k -> UNION {SuiteCases(n) : n \in 1..k}] :
                        \A n \in 1..k : s[n].input = n}
  /\ \A n \in 2..Len(testCases) : testCases[n].expect.t # "undefined"
  /\ executorConfigs \in {NoList} \cup {List(s) : s \in SeqUpTo(SuiteConfigs, MaxExecutors)}
  /\ options \in [bail : BOOLEAN,
                  executors : {NoList, List(<<>>)}
                                \cup {List(<<c>>) : c \in SuiteConfigs},
                  throwing : BOOLEAN]
  /\ Len(testCases) * Len(executorConfigs.list) <= MaxInvocations
  /\ \A i, j \in 1..Len(executorConfigs.list) :
       i # j => executorConfigs.list[i] # executorConfigs.list[j]
  /\ options.executors.given => Len(executorConfigs.list) <= 1
  /\ sink \in SinkModes
  /\ sink # "working" => ~options.throwing /\ ~options.executors.given
  /\ modelReplies = SuiteReplies
  /\ modelErrors = SuiteErrors
  /\ pc = "start"
  /\ index = 0
  /\ executors = <<>>
  /\ allResults = <<>>
  /\ executorResults = <<>>
  /\ inv = <<>>
  /\ settleOrder = <<>>
  /\ nextId = 1
  /\ calls = <<>>
  /\ events = <<>>
  /\ tracked = <<>>
  /\ finalResults = NoResult
  /\ runError = NoError
  /\ ElsewhereIdle

\* ------------------------------------------------------------------------
\* run(options) (PromptWithTests.ts)
\* ------------------------------------------------------------------------
\* a selection that falls back to the suite's configs on an empty override
ExecutorConfigsToUseOrFallback ==
  IF options.executors.given /\ Len(options.executors.list) > 0
  THEN options.executors
  ELSE executorConfigs

\* options?.executors ?? this.executorConfigs
ExecutorConfigsToUse ==
  IF options.executors.given THEN options.executors ELSE executorConfigs

EmptyBucket == [passed |-> 0, failed |-> 0, results |-> <<>>]

\* a filing that keeps only the latest result of a bucket
AddResultOverwriting(buckets, name, result) ==
  [buckets EXCEPT ![name] =
     [passed |-> IF result.passed THEN @.passed + 1 ELSE @.passed,
      failed |-> IF result.passed THEN @.failed ELSE @.failed + 1,
      results |-> <<result>>]]

\* a filing that never counts a failure
AddResultCountingPassed(buckets, name, result) ==
  [buckets EXCEPT ![name] =
     [passed |-> IF result.passed THEN @.passed + 1 ELSE @.passed,
      failed |-> @.failed,
      results |-> Append(@.results, result)]]

\* the loop body that files one result under its executor's display name
AddResult(buckets, name, result) ==
  [buckets EXCEPT ![name] =
     [passed |-> IF result.passed THEN @.passed + 1 ELSE @.passed,
      failed |-> IF result.passed THEN @.failed ELSE @.failed + 1,
      results |-> Append(@.results, result)]]

RECURSIVE AddResults(_, _, _)
AddResults(buckets, row, n) ==
  IF n = 0 THEN buckets
  ELSE AddResult(AddResults(buckets, row, n - 1), executors[n].name, row[n])

\* a count of failures that looks at the error field only
CountFailedByError(results) ==
  Cardinality({i \in 1..Len(results) : results[i].error.t # "undefined"})

CountPassed(results) == Cardinality({i \in 1..Len(results) : results[i].passed})
CountFailed(results) == Cardinality({i \in 1..Len(results) : ~results[i].passed})

\* a test-start event that counts the rows from zero
TestStartEventZeroBased ==
  [type |-> "test-start", current |-> index, total |-> Len(testCases),
   input |-> testCases[index + 1].input]

TestStartEvent ==
  [type |-> "test-start", current |-> index + 1, total |-> Len(testCases),
   input |-> testCases[index + 1].input]
TestCompleteEvent(result) == [type |-> "test-complete", data |-> result]

TestCaseRecord(result) ==
  [kind |-> "test_case", execution_id |-> result.execution_id,
   input |-> result.input, passed |-> result.passed]
\* a run record that counts the suite's cases instead of the results
TestRunRecordOfSuite(results) ==
  [kind |-> "test_run", total_tests |-> Len(testCases) * Len(executors),
   passed_tests |-> results.passed, failed_tests |-> results.failed]

TestRunRecord(results) ==
  [kind |-> "test_run", total_tests |-> results.total,
   passed_tests |-> results.passed, failed_tests |-> results.failed]

\* AnalyticsClient.trackTestCase / trackTestRun: the record is queued when
\* shouldTrack() holds; a client without the method throws a TypeError
Offer(record) == [record |-> record, queued |-> sink = "working"]

\* trackTestCaseResult / trackTestRunResult: one track call per record
Track(log, records) == log \o [i \in 1..Len(records) |-> Offer(records[i])]

\* tracking without the try/catch around the client's call
TrackingThrowsUncaught == sink = "throws"

\* whether an error of the client leaves trackTest*Result: the catch block
\* swallows it
TrackingThrows == FALSE

\* a bail check that ignores options.bail
ShouldBailUnasked(row) == \E i \in 1..Len(row) : ~row[i].passed

\* a bail check that looks at the first executor's result only
ShouldBailOnFirstExecutor(row) == options.bail /\ ~row[1].passed

\* options?.bail && executorResultsForTest.some((r) => !r.passed)
ShouldBail(row) == options.bail /\ \E i \in 1..Len(row) : ~row[i].passed

\* the configuration error: no executor config to use
RunConfigError ==
  /\ pc = "start"
  /\ \/ ~ExecutorConfigsToUse.given
     \/ Len(ExecutorConfigsToUse.list) = 0
  /\ pc' = "rejected"
  /\ runError' = ConfigError
  /\ UNCHANGED <<elsewhere, inputVars, index, executors, allResults, executorResults, inv,
                 settleOrder, nextId, calls, events, tracked, finalResults>>

\* executor instances and empty buckets are created, the loop is entered
RunStart ==
  /\ pc = "start"
  /\ ExecutorConfigsToUse.given
  /\ Len(ExecutorConfigsToUse.list) # 0
  /\ executors' = [i \in 1..Len(ExecutorConfigsToUse.list) |->
                     [config |-> ExecutorConfigsToUse.list[i],
                      name |-> extractModelName(ExecutorConfigsToUse.list[i].model),
                      made |-> "createVercelAIExecutor"]]
  /\ executorResults' =
       [name \in {extractModelName(ExecutorConfigsToUse.list[i].model) :
                    i \in 1..Len(ExecutorConfigsToUse.list)} |-> EmptyBucket]
  /\ index' = 0
  /\ pc' = "loop"
  /\ UNCHANGED <<elsewhere, inputVars, allResults, inv, settleOrder, nextId, calls, events,
                 tracked, finalResults, runError>>

\* executors.map(...): runSingle is called for every executor, in config
\* order, before Promise.all is awaited
RowInvocationsFirstOnly == <<Pending(nextId)>>

RowInvocations == [i \in 1..Len(executors) |-> Pending(nextId + i - 1)]

\* Promise.all resolves once every runSingle call of the row has settled
RowSettled == \A i \in 1..Len(inv) : inv[i].status = "settled"

\* what Promise.all resolves to: the results in the order of the executors
RowResultsBySettling == [k \in 1..Len(settleOrder) |-> inv[settleOrder[k]].result]

RowResults == [i \in 1..Len(inv) |-> inv[i].result]

\* the loop's i++
NextIndexSkipping == index + 2

NextIndex == index + 1

\* one row begins: test-start, then runSingle for every executor
RowStart ==
  /\ pc = "loop"
  /\ index < Len(testCases)
  /\ events' = Append(events, TestStartEvent)
  /\ \E throws \in (IF options.throwing THEN BOOLEAN ELSE {FALSE}) :
       IF throws
       THEN /\ pc' = "rejected"
            /\ runError' = CallbackError
            /\ UNCHANGED <<inv, settleOrder, nextId, calls>>
       ELSE /\ pc' = "await"
            /\ inv' = RowInvocations
            /\ settleOrder' = <<>>
            /\ nextId' = nextId + Len(RowInvocations)
            /\ calls' = calls \o [i \in 1..Len(RowInvocations) |-> <<index + 1, i>>]
            /\ UNCHANGED runError
  /\ UNCHANGED <<elsewhere, inputVars, index, executors, allResults, executorResults,
                 tracked, finalResults>>

\* Promise.all resolved: the row's results are filed in executor order
ProcessRow ==
  /\ pc = "await"
  /\ RowSettled
  /\ LET n == Len(inv)
         row == RowResults
     IN \E thrownAt \in (IF options.throwing THEN 0..n ELSE {0}) :
        \E byProgress \in (IF thrownAt = 0 THEN {FALSE} ELSE BOOLEAN) :
          LET bySink == TrackingThrows /\ thrownAt # 1
              stop == IF bySink THEN 1 ELSE thrownAt
              pushed == IF stop = 0 THEN n ELSE stop
              emitted == IF stop = 0 THEN n
                         ELSE IF bySink \/ byProgress THEN stop ELSE stop - 1
              done == IF stop = 0 THEN n ELSE IF bySink THEN stop ELSE stop - 1
          IN /\ allResults' = allResults \o SubSeq(row, 1, pushed)
             /\ executorResults' = AddResults(executorResults, row, pushed)
             /\ events' = events \o [i \in 1..emitted |-> TestCompleteEvent(row[i])]
             /\ tracked' = Track(tracked, [i \in 1..done |-> TestCaseRecord(row[i])])
             /\ IF stop # 0
                THEN /\ pc' = "rejected"
                     /\ runError' = IF bySink THEN SinkError ELSE CallbackError
                     /\ UNCHANGED index
                ELSE IF ShouldBail(row)
                THEN /\ pc' = "finalize"
                     /\ UNCHANGED <<index, runError>>
                ELSE /\ pc' = "loop"
                     /\ index' = NextIndex
                     /\ UNCHANGED runError
  /\ inv' = <<>>
  /\ UNCHANGED <<elsewhere, inputVars, executors, settleOrder, nextId, calls, finalResults>>

\* after the loop: the TestResults are assembled, tracked and returned
Finalize ==
  /\ \/ pc = "finalize"
     \/ pc = "loop" /\ index >= Len(testCases)
  /\ LET results == [total |-> Len(allResults),
                     passed |-> CountPassed(allResults),
                     failed |-> CountFailed(allResults),
                     results |-> allResults,
                     executorResults |-> executorResults]
     IN /\ tracked' = Track(tracked, <<TestRunRecord(results)>>)
        /\ IF TrackingThrows
           THEN /\ pc' = "rejected"
                /\ runError' = SinkError
                /\ UNCHANGED finalResults
           ELSE /\ pc' = "done"
                /\ finalResults' = results
                /\ UNCHANGED runError
  /\ settleOrder' = <<>>
  /\ UNCHANGED <<elsewhere, inputVars, index, executors, allResults, executorResults, inv,
                 nextId, calls, events>>

\* ------------------------------------------------------------------------
\* One runSingle call in flight: the race of the executor with the test timer,
\* and inside the executor the race of generateText with the executor's timer
\* ------------------------------------------------------------------------
\* whether executor i was made by createVercelAIExecutor; runSingle also takes
\* an Executor written by the caller
IsVercel(i) == executors[i].made = "createVercelAIExecutor"

Settle(i, executionResult, result, cause) ==
  /\ inv' = [inv EXCEPT ![i] =
               Settled(inv[i].execution_id, executionResult, result, cause)]
  /\ settleOrder' = Append(settleOrder, i)
  /\ UNCHANGED <<elsewhere, inputVars, pc, index, executors, allResults, executorResults,
                 nextId, calls, events, tracked, finalResults, runError>>

\* prompt.toVercelAI throws: the executor's catch block returns at once
PromptThrows(i) ==
  /\ inv[i].status = "pending"
  /\ IsVercel(i)
  /\ \E message \in PromptErrors :
       LET executionResult == ExecutorCatch(message)
       IN Settle(i, executionResult,
                 RunSingleResult(testCases[index + 1], executionResult,
                                 executors[i].name, inv[i].execution_id),
                 Cause("prompt threw", message))

\* generateText resolves before either timer
GenerateTextResolves(i) ==
  /\ inv[i].status = "pending"
  /\ IsVercel(i)
  /\ \E reply \in modelReplies :
       LET executionResult == ExecutorReturn(reply)
       IN Settle(i, executionResult,
                 RunSingleResult(testCases[index + 1], executionResult,
                                 executors[i].name, inv[i].execution_id),
                 Cause("model resolved", ""))

\* generateText rejects before either timer: the model call failed, or a tool
\* threw inside it
GenerateTextRejects(i) ==
  /\ inv[i].status = "pending"
  /\ IsVercel(i)
  /\ \E message \in modelErrors :
       LET executionResult == ExecutorCatch(message)
       IN Settle(i, executionResult,
                 RunSingleResult(testCases[index + 1], executionResult,
                                 executors[i].name, inv[i].execution_id),
                 Cause("model rejected", message))

\* the executor's timer fires first: it was set for less than the test timer
ExecutorTimerFires(i) ==
  /\ inv[i].status = "pending"
  /\ IsVercel(i)
  /\ ExecutorTimeout(executors[i].config) < TestTimeout(testCases[index + 1])
  /\ LET executionResult == ExecutorCatch("Execution timeout")
     IN Settle(i, executionResult,
               RunSingleResult(testCases[index + 1], executionResult,
                               executors[i].name, inv[i].execution_id),
               Cause("executor timer", "Execution timeout"))

\* the test timer fires first: it was set earlier and for no longer than the
\* timer of a createVercelAIExecutor executor; another executor may never settle
TestTimerFires(i) ==
  /\ inv[i].status = "pending"
  /\ IsVercel(i) => TestTimeout(testCases[index + 1]) <= ExecutorTimeout(executors[i].config)
  /\ Settle(i, NoResult,
            RunSingleCatch(testCases[index + 1], "Test timeout",
                           executors[i].name, inv[i].execution_id),
            Cause("test timer", "Test timeout"))

\* an Executor written by the caller resolves before the test timer
CustomExecutorResolves(i) ==
  /\ inv[i].status = "pending"
  /\ ~IsVercel(i)
  /\ \E executionResult \in CustomResults :
       Settle(i, executionResult,
              RunSingleResult(testCases[index + 1], executionResult,
                              executors[i].name, inv[i].execution_id),
              Cause("executor resolved", ""))

\* an Executor written by the caller throws when called, or rejects before the
\* test timer
CustomExecutorFails(i) ==
  /\ inv[i].status = "pending"
  /\ ~IsVercel(i)
  /\ \E message \in CustomErrors :
       Settle(i, NoResult,
              RunSingleCatch(testCases[index + 1], message,
                             executors[i].name, inv[i].execution_id),
              Cause("executor failed", message))

Next ==
  \/ RunConfigError
  \/ RunStart
  \/ RowStart
  \/ ProcessRow
  \/ Finalize
  \/ \E i \in 1..Len(inv) : GenerateTextResolves(i)
  \/ \E i \in 1..Len(inv) : GenerateTextRejects(i)
  \/ \E i \in 1..Len(inv) : ExecutorTimerFires(i)
  \/ \E i \in 1..Len(inv) : TestTimerFires(i)

Spec == Init /\ [][Next]_vars

\* ------------------------------------------------------------------------
\* runSingle called directly with an executor made by createVercelAIExecutor
\* ------------------------------------------------------------------------
SingleExpects == {Undef, Null, Paris, ParisWithExtra, Str("Paris")}
SingleTimeouts == {Undef, Num(ShortTimeout), Num(LongTimeout)}
SingleCases == {TestCase(1, e, tmo) : e \in SingleExpects, tmo \in SingleTimeouts}
SingleConfigs ==
  {Config(Obj([modelId |-> Str("gpt-4")]), tmo) : tmo \in {Undef, Num(ShortTimeout)}}

SingleReplies ==
  {ModelResult(txt, trs, ntc, fin) :
     txt \in {"", "Paris"},
     trs \in {<<>>, <<ToolResult(Paris, Undef)>>, <<ToolResult(ParisWithExtra, Undef)>>,
              <<ToolResult(London, Undef)>>, <<ToolResult(Null, Paris)>>},
     ntc \in {0, 1},
     fin \in {"stop", "tool-calls", "error"}}

InitSingle ==
  /\ testCases \in {<<tc>> : tc \in SingleCases}
  /\ executorConfigs = NoList
  /\ options = [bail |-> FALSE, executors |-> NoList, throwing |-> FALSE]
  /\ sink = "working"
  /\ modelReplies = SingleReplies
  /\ modelErrors = SingleErrors
  /\ pc = "single"
  /\ index = 0
  /\ executors \in {<<[config |-> c, name |-> extractModelName(c.model), made |-> m]>> :
                      c \in SingleConfigs, m \in {"createVercelAIExecutor", "custom"}}
  /\ allResults = <<>>
  /\ executorResults = <<>>
  /\ inv = <<Pending(1)>>
  /\ settleOrder = <<>>
  /\ nextId = 2
  /\ calls = <<<<1, 1>>>>
  /\ events = <<>>
  /\ tracked = <<>>
  /\ finalResults = NoResult
  /\ runError = NoError
  /\ ElsewhereIdle

NextSingle ==
  \/ PromptThrows(1)
  \/ CustomExecutorResolves(1)
  \/ CustomExecutorFails(1)
  \/ GenerateTextResolves(1)
  \/ GenerateTextRejects(1)
  \/ ExecutorTimerFires(1)
  \/ TestTimerFires(1)

SpecSingle == InitSingle /\ [][NextSingle]_vars

\* ------------------------------------------------------------------------
\* match called on its own (matchers.ts)
\* ------------------------------------------------------------------------
\* run() and runSingle are not in use
SuiteIdle ==
  /\ testCases = <<>>
  /\ executorConfigs = NoList
  /\ options = [bail |-> FALSE, executors |-> NoList, throwing |-> FALSE]
  /\ sink = "disabled"
  /\ modelReplies = {}
  /\ modelErrors = {}
  /\ pc = "idle"
  /\ index = 0
  /\ executors = <<>>
  /\ allResults = <<>>
  /\ executorResults = <<>>
  /\ inv = <<>>
  /\ settleOrder = <<>>
  /\ nextId = 1
  /\ calls = <<>>
  /\ events = <<>>
  /\ tracked = <<>>
  /\ finalResults = NoResult
  /\ runError = NoError

\* neither are the executor and the analytics client
RunIdle == SuiteIdle /\ ExecIdle /\ ClientIdle

\* an object literal with one or two own keys
Obj1(k, x) == Obj(k :> x)
Obj2(k1, x1, k2, x2) == Obj(k1 :> x1 @@ k2 :> x2)
EmptyObject == Obj(<<>>)

\* the values match is called with: primitives, arrays up to MaxLen elements,
\* objects (also with index-like keys) and one level of nesting
MatchPrimitives == {Undef, Null, Num(1), Num(2), Str("a"), Str("1")}
MatchArrays ==
  {Arr(s) : s \in SeqUpTo({Num(1), Num(2)}, MaxLen)}
    \cup {Arr(<<Obj1("a", Num(1))>>), Arr(<<Arr(<<Num(1)>>)>>)}
MatchObjects ==
  {EmptyObject, Obj1("0", Num(1)), Obj2("0", Num(1), "1", Num(2)),
   Obj1("a", Num(1)), Obj1("a", Num(2)), Obj1("b", Num(1)), Obj1("a", Undef),
   Obj2("a", Num(1), "b", Num(2)), Obj1("a", Obj1("a", Num(1))),
   Obj1("a", Arr(<<Num(1)>>)), Obj1("a", Obj1("0", Num(1))),
   Obj1("0", Obj1("a", Num(1)))}
MatchValues == MatchPrimitives \cup MatchArrays \cup MatchObjects

InitMatch ==
  /\ RunIdle
  /\ WatchIdle
  /\ CliIdle
  /\ \E a \in MatchValues, e \in MatchValues :
       matcher = [actual |-> a, expected |-> e, called |-> FALSE, result |-> FALSE]

\* match(actual, expected) is called and returns
CallMatch ==
  /\ ~matcher.called
  /\ matcher' = [matcher EXCEPT !.called = TRUE,
                                !.result = match(matcher.actual, matcher.expected)]
  /\ UNCHANGED <<runVars, watchVars, cliVars>>

NextMatch == CallMatch

SpecMatch == InitMatch /\ [][NextMatch]_vars

\* ------------------------------------------------------------------------
\* Watcher (packages/cli/src/watch/Watcher.ts)
\* ------------------------------------------------------------------------
\* the paths chokidar reports
WatchedPaths == {"a.prompt.ts", "b.prompt.js"}

NoTimer == "none"

\* what the environment did, when findAndRun was started and how it settled
WatchEntry(type, path) == [type |-> type, path |-> path]

\* file events and key presses so far
Arrivals ==
  Cardinality({k \in 1..Len(watchLog) : watchLog[k].type \in {"change", "add", "key"}})

\* runTests goes on to call findAndRun: no run is in progress
RunTestsStartsAlways == TRUE

RunTestsStarts == ~watcher.isRunning

\* how the promise of findAndRun may settle
RunOutcomes == {"resolved", "rejected"}

InitWatch ==
  /\ RunIdle
  /\ MatchIdle
  /\ CliIdle
  /\ watchPc = "constructed"
  /\ watcher = [isRunning |-> FALSE, debounceTimer |-> NoTimer]
  /\ watchLog = <<>>

\* start(): the initial run; the chokidar watcher is set up when it is over
StartWatching ==
  /\ watchPc = "constructed"
  /\ watchPc' = "initial"
  /\ watcher' = [watcher EXCEPT !.isRunning = TRUE]
  /\ watchLog' = Append(watchLog, WatchEntry("run", ""))
  /\ UNCHANGED <<runVars, matcher, cliVars>>

\* runTests after its await: findAndRun resolved or rejected, finally clears
\* isRunning; after the initial run start() installs the handlers
FindAndRunSettles ==
  /\ watcher.isRunning
  /\ watcher' = [watcher EXCEPT !.isRunning = FALSE]
  /\ watchPc' = IF watchPc = "initial" THEN "watching" ELSE watchPc
  /\ \E outcome \in RunOutcomes :
       watchLog' = Append(watchLog, WatchEntry("settled", outcome))
  /\ UNCHANGED <<runVars, matcher, cliVars>>

\* scheduleRun(path): dropped during a run, else the timer is set anew
ScheduleRun(type, path) ==
  /\ watchPc = "watching"
  /\ Arrivals < MaxArrivals
  /\ watchLog' = Append(watchLog, WatchEntry(type, path))
  /\ watcher' = IF watcher.isRunning
                THEN watcher
                ELSE [watcher EXCEPT !.debounceTimer = path]
  /\ UNCHANGED <<runVars, matcher, cliVars, watchPc>>

\* watcher.on("change") and watcher.on("add")
OnChange == \E path \in WatchedPaths : ScheduleRun("change", path)
OnAdd == \E path \in WatchedPaths : ScheduleRun("add", path)

\* the debounce timer fires: runTests starts findAndRun unless a run is in
\* progress, in which case it returns at once
DebounceTimerFires ==
  /\ watcher.debounceTimer # NoTimer
  /\ watcher' = [isRunning |-> TRUE, debounceTimer |-> NoTimer]
  /\ watchLog' = IF RunTestsStarts
                 THEN Append(watchLog, WatchEntry("run", ""))
                 ELSE watchLog
  /\ UNCHANGED <<runVars, matcher, cliVars, watchPc>>

\* the 'a' key: runTests is called directly, a pending timer stays pending
OnKeyA ==
  /\ watchPc = "watching"
  /\ Arrivals < MaxArrivals
  /\ watcher' = [watcher EXCEPT !.isRunning = TRUE]
  /\ watchLog' = IF RunTestsStarts
                 THEN watchLog \o <<WatchEntry("key", ""), WatchEntry("run", "")>>
                 ELSE Append(watchLog, WatchEntry("key", ""))
  /\ UNCHANGED <<runVars, matcher, cliVars, watchPc>>

NextWatch ==
  \/ StartWatching
  \/ FindAndRunSettles
  \/ OnChange
  \/ OnAdd
  \/ DebounceTimerFires
  \/ OnKeyA

SpecWatch == InitWatch /\ [][NextWatch]_vars

\* timers fire and findAndRun settles; nobody has to touch a file or a key
FairSpecWatch ==
  /\ SpecWatch
  /\ WF_vars(StartWatching)
  /\ WF_vars(FindAndRunSettles)
  /\ WF_vars(DebounceTimerFires)

\* ------------------------------------------------------------------------
\* TestRunner.findAndRun (packages/cli/src/runner/TestRunner.ts)
\* ------------------------------------------------------------------------
\* an exported PromptWithTests: whether each of its cases passes when it is
\* executed, and whether it has an executor config at all
Suite(cases, configured) == [cases |-> cases, configured |-> configured]
SuiteKinds ==
  {Suite(<<TRUE>>, TRUE), Suite(<<FALSE, TRUE>>, TRUE), Suite(<<TRUE, FALSE>>, TRUE),
   Suite(<<TRUE>>, FALSE)}

\* a prompt file: its extension and its exports
PromptFiles ==
  {[ext |-> x, exports |-> s] : x \in {"js", "ts"}, s \in SeqUpTo(SuiteKinds, MaxExports)}

\* TestResults as the runner reads them
Totals(outcomes) ==
  [total |-> Len(outcomes),
   passed |-> Cardinality({c \in 1..Len(outcomes) : outcomes[c]}),
   failed |-> Cardinality({c \in 1..Len(outcomes) : ~outcomes[c]})]

\* prompt.run({bail}): the cases it executes, all of them or, with bail, those
\* up to the first one that fails
CasesRun(cases, bailOption) ==
  IF bailOption /\ \E c \in 1..Len(cases) : ~cases[c]
  THEN Min({c \in 1..Len(cases) : ~cases[c]})
  ELSE Len(cases)

\* the executions of the first n cases of export k of file f
Executions(f, k, cases, n) ==
  [c \in 1..n |-> [file |-> f, export |-> k, case |-> c, passed |-> cases[c]]]

\* what the child process of loadTypeScriptFileDirect does with export k of
\* file f: value.run({concurrency: 1, bail: false}), or nothing when run() throws
ChildExecutions(f, k, suite) ==
  IF suite.configured
  THEN Executions(f, k, suite.cases, CasesRun(suite.cases, FALSE))
  ELSE <<>>

RECURSIVE ChildRun(_, _, _)
ChildRun(f, exports, k) ==
  IF k = 0 THEN <<>>
  ELSE ChildRun(f, exports, k - 1) \o ChildExecutions(f, k, exports[k])

\* the stand-in the parent builds from one line of the child's output: its
\* run() returns the recorded results, or empty results after an error
Replay(f, k, suite) ==
  [name |-> <<f, k>>, kind |-> "replay", configured |-> TRUE,
   cases |-> IF suite.configured
             THEN SubSeq(suite.cases, 1, CasesRun(suite.cases, FALSE))
             ELSE <<>>]

\* an export of a JavaScript file, imported into this process
Imported(f, k, suite) ==
  [name |-> <<f, k>>, kind |-> "real", configured |-> suite.configured,
   cases |-> suite.cases]

InitCli ==
  /\ RunIdle
  /\ MatchIdle
  /\ WatchIdle
  /\ bail \in BOOLEAN
  /\ files \in SeqUpTo(PromptFiles, MaxFiles)
  /\ cliPc = "load"
  /\ fileIndex = 0
  /\ prompts = <<>>
  /\ promptIndex = 0
  /\ promptResults = <<>>
  /\ executed = <<>>
  /\ runnerResults = NoResult

\* loadPrompts, one file: a .ts file is handed to a child process that runs
\* every exported suite and prints the results, from which stand-ins are
\* built; a .js file is imported. A file that fails to load is skipped.
LoadFile ==
  /\ cliPc = "load"
  /\ fileIndex < Len(files)
  /\ LET f == fileIndex + 1
         file == files[f]
         n == Len(file.exports)
     IN \E loads \in BOOLEAN :
          IF ~loads
          THEN UNCHANGED <<prompts, executed>>
          ELSE IF file.ext = "ts"
          THEN /\ executed' = executed \o ChildRun(f, file.exports, n)
               /\ prompts' = prompts \o [k \in 1..n |-> Replay(f, k, file.exports[k])]
          ELSE /\ prompts' = prompts \o [k \in 1..n |-> Imported(f, k, file.exports[k])]
               /\ UNCHANGED executed
  /\ fileIndex' = fileIndex + 1
  /\ UNCHANGED <<runVars, matcher, watchVars, bail, files, cliPc, promptIndex,
                 promptResults, runnerResults>>

\* loadPrompts returns, runTests begins
LoadDone ==
  /\ cliPc = "load"
  /\ fileIndex = Len(files)
  /\ cliPc' = "run"
  /\ UNCHANGED <<runVars, matcher, watchVars, bail, files, fileIndex, prompts,
                 promptIndex, promptResults, executed, runnerResults>>

\* runTests, one prompt: prompt.run({bail}); a run() that rejects is logged
\* and skipped; with bail a result with failures ends the loop
RunPrompt ==
  /\ cliPc = "run"
  /\ promptIndex < Len(prompts)
  /\ LET prompt == prompts[promptIndex + 1]
         n == IF prompt.kind = "real" THEN CasesRun(prompt.cases, bail)
              ELSE Len(prompt.cases)
         results == Totals(SubSeq(prompt.cases, 1, n))
     IN IF ~prompt.configured
        THEN /\ promptIndex' = promptIndex + 1
             /\ UNCHANGED <<promptResults, executed, cliPc>>
        ELSE /\ executed' =
                  IF prompt.kind = "real"
                  THEN executed \o Executions(prompt.name[1], prompt.name[2],
                                              prompt.cases, n)
                  ELSE executed
             /\ promptResults' =
                  Append(promptResults, [promptName |-> prompt.name, results |-> results])
             /\ IF bail /\ results.failed > 0
                THEN cliPc' = "aggregate" /\ UNCHANGED promptIndex
                ELSE promptIndex' = promptIndex + 1 /\ UNCHANGED cliPc
  /\ UNCHANGED <<runVars, matcher, watchVars, bail, files, fileIndex, prompts,
                 runnerResults>>

RECURSIVE Sum(_, _)
Sum(s, field) ==
  IF s = <<>> THEN 0
  ELSE s[1].results[field] + Sum(Tail(s), field)

\* runTests after the loop: the totals over promptResults
Aggregate ==
  /\ \/ cliPc = "aggregate"
     \/ cliPc = "run" /\ promptIndex = Len(prompts)
  /\ runnerResults' = [total |-> Sum(promptResults, "total"),
                       passed |-> Sum(promptResults, "passed"),
                       failed |-> Sum(promptResults, "failed"),
                       promptResults |-> promptResults]
  /\ cliPc' = "done"
  /\ UNCHANGED <<runVars, matcher, watchVars, bail, files, fileIndex, prompts,
                 promptIndex, promptResults, executed>>

NextCli ==
  \/ LoadFile
  \/ LoadDone
  \/ RunPrompt
  \/ Aggregate

SpecCli == InitCli /\ [][NextCli]_vars

\* ------------------------------------------------------------------------
\* One call of an Executor made by createVercelAIExecutor, with the steps
\* array it records into (VercelAIExecutor.ts)
\* ------------------------------------------------------------------------
\* responseFormat as prompt.toVercelAI returns it
ResponseFormats == {"none", "json_schema"}

\* the texts of the replies; one of them is JSON
CityJSON == "{\"city\":\"Paris\"}"
ExecTexts == {"", "Paris", CityJSON}

\* JSON.parse on these texts: the one that is JSON yields the object it
\* denotes, on the others it throws
JSONParse(text) ==
  IF text = CityJSON THEN [threw |-> FALSE, value |-> Paris] ELSE [threw |-> TRUE]

\* the final output: with a schema the parsed text, or the raw text when
\* parsing throws; without one the text, else the last tool result
ExtractOutputFor(responseFormat, result) ==
  IF responseFormat = "json_schema"
  THEN IF JSONParse(result.text).threw
       THEN Str(result.text)
       ELSE JSONParse(result.text).value
  ELSE ExtractOutput(result)

\* the array that const steps is bound to; results hold it by reference
StepsRef == [ref |-> "steps"]

\* the contents of the steps of a result, now
StepsOf(result) == IF result.steps = StepsRef THEN exec.steps ELSE result.steps

\* the ExecutionResult returned after generateText resolved, and the one the
\* catch block returns
ExecutionResultOf(responseFormat, result) ==
  [output |-> ExtractOutputFor(responseFormat, result),
   steps |-> StepsRef,
   finishReason |-> result.finishReason,
   error |-> Undef]
ExecutionResultCaught(errorMessage) ==
  [output |-> ExecutorCatch(errorMessage).output,
   steps |-> StepsRef,
   finishReason |-> ExecutorCatch(errorMessage).finishReason,
   error |-> ExecutorCatch(errorMessage).error]

\* what the model call may resolve to
ExecReplies ==
  {ModelResult(txt, trs, ntc, fin) :
     txt \in ExecTexts,
     trs \in {<<>>, <<ToolResult(Paris, Undef)>>, <<ToolResult(Undef, Paris)>>,
              <<ToolResult(Num(0), Undef)>>,
              <<ToolResult(London, Undef), ToolResult(Paris, Undef)>>},
     ntc \in {0, 1},
     fin \in {"stop", "tool-calls"}}

InitExec ==
  /\ SuiteIdle
  /\ MatchIdle
  /\ WatchIdle
  /\ CliIdle
  /\ ClientIdle
  /\ exec \in {[responseFormat |-> f, pc |-> "racing", call |-> "in flight",
                steps |-> <<>>, returned |-> NoResult, stepsAtReturn |-> <<>>,
                reply |-> NoResult, evalSteps |-> NoResult] : f \in ResponseFormats}

\* the executor has returned, and runSingle has copied steps onto the
\* EvalResult
Returned(executionResult, reply) ==
  [exec EXCEPT !.pc = "returned", !.returned = executionResult,
               !.stepsAtReturn = exec.steps, !.reply = reply,
               !.evalSteps = executionResult.steps]

\* onStepFinish: generateText completed a round, before the executor returned
\* or after it
StepFinishes ==
  /\ exec.call = "in flight"
  /\ Len(exec.steps) < MaxSteps
  /\ exec' = [exec EXCEPT
                !.steps = Append(exec.steps, [stepNumber |-> Len(exec.steps) + 1])]
  /\ UNCHANGED <<suiteVars, matcher, watchVars, cliVars, client>>

\* generateText resolves: it wins the race, or the executor has returned
\* already and the race ignores it
ExecGenerateTextResolves ==
  /\ exec.call = "in flight"
  /\ \E reply \in ExecReplies :
       exec' = IF exec.pc = "racing"
               THEN [Returned(ExecutionResultOf(exec.responseFormat, reply), reply)
                       EXCEPT !.call = "resolved"]
               ELSE [exec EXCEPT !.call = "resolved"]
  /\ UNCHANGED <<suiteVars, matcher, watchVars, cliVars, client>>

\* generateText rejects: the catch block returns, unless the executor has
\* returned already
ExecGenerateTextRejects ==
  /\ exec.call = "in flight"
  /\ \E message \in SuiteErrors :
       exec' = IF exec.pc = "racing"
               THEN [Returned(ExecutionResultCaught(message), NoResult)
                       EXCEPT !.call = "rejected"]
               ELSE [exec EXCEPT !.call = "rejected"]
  /\ UNCHANGED <<suiteVars, matcher, watchVars, cliVars, client>>

\* the executor's timer rejects the race: the catch block returns while
\* generateText goes on
ExecTimerFires ==
  /\ exec.pc = "racing"
  /\ exec' = Returned(ExecutionResultCaught("Execution timeout"), NoResult)
  /\ UNCHANGED <<suiteVars, matcher, watchVars, cliVars, client>>

NextExec ==
  \/ StepFinishes
  \/ ExecGenerateTextResolves
  \/ ExecGenerateTextRejects
  \/ ExecTimerFires

SpecExec == InitExec /\ [][NextExec]_vars

\* ------------------------------------------------------------------------
\* The AnalyticsClient: queue, debounced flush, threshold flush, transport
\* ------------------------------------------------------------------------
\* the arrays of the queue, one per track method
QueueKinds ==
  <<"tool_calls", "prompt_metadata", "prompt_executions", "test_runs", "test_cases">>

\* the queue after the constructor and after clearQueue
EmptyQueue == [k \in {QueueKinds[i] : i \in 1..Len(QueueKinds)} |-> <<>>]

\* the n-th record the program tracks; the track methods are called in turn
ClientRecord(n) == [kind |-> QueueKinds[(n % Len(QueueKinds)) + 1], id |-> n]

RECURSIVE TotalFrom(_, _)
TotalFrom(queue, i) ==
  IF i > Len(QueueKinds) THEN 0
  ELSE Len(queue[QueueKinds[i]]) + TotalFrom(queue, i + 1)

\* scheduleFlush's totalEvents, and isEmpty
TotalEvents(queue) == TotalFrom(queue, 1)
IsEmpty(queue) == \A k \in DOMAIN queue : Len(queue[k]) = 0

\* shouldTrack
ShouldTrack == ~client.isDisabled /\ client.hasApiKey

\* the records in the body that sendBatch hands to fetch: JSON.stringify of
\* the queue object, all five arrays
BatchOf(queue) ==
  UNION {{queue[k][i].id : i \in 1..Len(queue[k])} : k \in DOMAIN queue}

\* clearQueue, and a flush that leaves the queue as it is
ClearQueueKeeping(queue) == queue

ClearQueue(queue) == EmptyQueue

\* flush(): nothing when not tracking or empty, else sendBatch and clearQueue;
\* by is what called it
Flush(c, by) ==
  IF c.isDisabled \/ ~c.hasApiKey \/ IsEmpty(c.queue) THEN c
  ELSE [c EXCEPT !.sent = [id \in DOMAIN c.sent |->
                             c.sent[id] + (IF id \in BatchOf(c.queue) THEN 1 ELSE 0)],
                 !.flushedBy = by,
                 !.queue = ClearQueue(c.queue)]

\* scheduleFlush: the timer is set anew, and a queue of FlushThreshold
\* records is flushed at once
ScheduleFlush(c) ==
  LET timed == [c EXCEPT !.flushTimeout = TRUE]
  IN IF TotalEvents(c.queue) >= FlushThreshold THEN Flush(timed, "threshold") ELSE timed

InitClient ==
  /\ SuiteIdle
  /\ MatchIdle
  /\ WatchIdle
  /\ CliIdle
  /\ ExecIdle
  /\ client \in {[isDisabled |-> d, hasApiKey |-> k, queue |-> EmptyQueue,
                  flushTimeout |-> FALSE, offered |-> 0, sent |-> <<>>,
                  flushedBy |-> "nothing"] : d \in BOOLEAN, k \in BOOLEAN}

\* a track method is called: the record is pushed and scheduleFlush runs;
\* nothing happens when the client does not track
TrackRecord ==
  /\ client.offered < MaxTracks
  /\ LET n == client.offered + 1
         record == ClientRecord(n)
     IN client' =
          IF ~ShouldTrack THEN [client EXCEPT !.offered = n]
          ELSE ScheduleFlush(
                 [client EXCEPT !.offered = n,
                                !.sent = Append(client.sent, 0),
                                !.queue[record.kind] = Append(@, record)])
  /\ UNCHANGED <<suiteVars, matcher, watchVars, cliVars, exec>>

\* the 100 ms timer fires
FlushTimerFires ==
  /\ client.flushTimeout
  /\ client' = Flush([client EXCEPT !.flushTimeout = FALSE], "timer")
  /\ UNCHANGED <<suiteVars, matcher, watchVars, cliVars, exec>>

\* the program calls flush()
ExplicitFlush ==
  /\ client' = Flush(client, "flush")
  /\ UNCHANGED <<suiteVars, matcher, watchVars, cliVars, exec>>

\* beforeExit: the event loop has nothing left to do, so no timer is pending
BeforeExit ==
  /\ ~client.flushTimeout
  /\ client' = Flush(client, "beforeExit")
  /\ UNCHANGED <<suiteVars, matcher, watchVars, cliVars, exec>>

NextClient ==
  \/ TrackRecord
  \/ FlushTimerFires
  \/ ExplicitFlush
  \/ BeforeExit

SpecClient == InitClient /\ [][NextClient]_vars

\* a timer that was set fires
FairSpecClient == SpecClient /\ WF_vars(FlushTimerFires)

\* ------------------------------------------------------------------------
\* matchPartial called on its own, and called again after a key of actual
\* was added or removed (matchers.ts)
\* ------------------------------------------------------------------------
\* key in x, for an object or an array of these values: own keys, and an
\* array's length
In(k, x) == k \in Keys(x) \/ (x.t = "array" /\ k = "length")

\* x[key] where key in x
Lookup(x, k) == IF x.t = "array" /\ k = "length" THEN Num(Len(x.v)) ELSE Get(x, k)

RECURSIVE partialEqual(_, _)
partialEqual(actual, expected) ==
  IF IsNullish(expected) \/ TypeOf(expected) # "object"
  THEN StrictEquals(actual, expected)
  ELSE IF IsNullish(actual) \/ TypeOf(actual) # "object" THEN FALSE
  ELSE IF expected.t = "array"
    THEN /\ actual.t = "array"
         /\ \A i \in 1..Len(expected.v) :
              \E j \in 1..Len(actual.v) : partialEqual(actual.v[j], expected.v[i])
  ELSE \A k \in Keys(expected) :
         In(k, actual) /\ partialEqual(Lookup(actual, k), Get(expected, k))

\* a matchPartial that asks for equality
matchPartialExact(actual, expected) == deepEqual(actual, expected)

\* matchPartial(actual, expected): partialEqual never throws on these values
matchPartial(actual, expected) == partialEqual(actual, expected)

\* the value at a path of object keys, if the path leads through objects
RECURSIVE At(_, _)
At(x, path) ==
  IF Len(path) = 0 THEN [found |-> TRUE, value |-> x]
  ELSE IF x.t = "object" /\ Head(path) \in DOMAIN x.v
  THEN At(x.v[Head(path)], Tail(path))
  ELSE [found |-> FALSE]

\* x with the object at path given the key k with value v, or without key k
RECURSIVE WithKeyAt(_, _, _, _)
WithKeyAt(x, path, k, v) ==
  IF Len(path) = 0
  THEN Obj([key \in DOMAIN x.v \cup {k} |-> IF key = k THEN v ELSE x.v[key]])
  ELSE Obj([x.v EXCEPT ![Head(path)] = WithKeyAt(@, Tail(path), k, v)])
RECURSIVE WithoutKeyAt(_, _, _)
WithoutKeyAt(x, path, k) ==
  IF Len(path) = 0
  THEN Obj([key \in DOMAIN x.v \ {k} |-> x.v[key]])
  ELSE Obj([x.v EXCEPT ![Head(path)] = WithoutKeyAt(@, Tail(path), k)])

\* the paths of object keys into x, the empty path included
PathsInto(x) ==
  {<<>>} \cup (IF x.t = "object"
               THEN {<<k>> : k \in {key \in DOMAIN x.v : x.v[key].t = "object"}}
               ELSE {})

\* the keys expected names for the object at path
ReferencedAt(expected, path) ==
  IF At(expected, path).found /\ At(expected, path).value.t = "object"
  THEN DOMAIN At(expected, path).value.v
  ELSE {}

\* the values matchPartial is called with; the keys and values that are added
PartialObjects ==
  {Obj2("a", Num(1), "b", Obj1("a", Num(1))), Obj1("b", Obj1("a", Num(1))),
   Obj1("b", Obj2("a", Num(1), "b", Num(2))), Obj1("b", Obj1("a", Undef)),
   Obj1("b", EmptyObject), Obj1("a", Arr(<<Num(1), Num(1)>>)),
   Obj1("a", Arr(<<Num(1), Num(2)>>)),
   Arr(<<Obj1("a", Num(1)), Obj1("a", Num(1))>>),
   Arr(<<Obj2("a", Num(1), "b", Num(2))>>),
   Arr(<<Obj1("a", Num(1)), Obj1("b", Num(2))>>)}
PartialValues == MatchValues \cup PartialObjects
AddedKeys == {"a", "b", "c"}
AddedValues == {Num(1), Undef, Obj1("a", Num(1))}

NoEdit == [kind |-> "none"]

InitPartial ==
  /\ RunIdle
  /\ WatchIdle
  /\ CliIdle
  /\ \E a \in PartialValues, e \in PartialValues :
       matcher = [actual |-> a, expected |-> e, called |-> FALSE, result |-> FALSE,
                  edit |-> NoEdit, edited |-> a, editedResult |-> FALSE]

\* matchPartial(actual, expected) is called and returns
CallMatchPartial ==
  /\ ~matcher.called
  /\ matcher' = [matcher EXCEPT
                   !.called = TRUE,
                   !.result = matchPartial(matcher.actual, matcher.expected)]
  /\ UNCHANGED <<runVars, watchVars, cliVars>>

\* an object of actual gets a key it did not have and that expected does not
\* name there, and matchPartial is called again
AddKeyAndCall ==
  /\ matcher.called
  /\ matcher.edit = NoEdit
  /\ matcher.actual.t = "object"
  /\ \E path \in PathsInto(matcher.actual), k \in AddedKeys, v \in AddedValues :
       /\ k \notin DOMAIN At(matcher.actual, path).value.v
       /\ k \notin ReferencedAt(matcher.expected, path)
       /\ LET edited == WithKeyAt(matcher.actual, path, k, v)
          IN matcher' = [matcher EXCEPT
                           !.edit = [kind |-> "add", path |-> path, key |-> k],
                           !.edited = edited,
                           !.editedResult = matchPartial(edited, matcher.expected)]
  /\ UNCHANGED <<runVars, watchVars, cliVars>>

\* an object of actual loses a key that expected names there, and
\* matchPartial is called again
RemoveKeyAndCall ==
  /\ matcher.called
  /\ matcher.edit = NoEdit
  /\ matcher.actual.t = "object"
  /\ \E path \in PathsInto(matcher.actual) :
     \E k \in DOMAIN At(matcher.actual, path).value.v
                \cap ReferencedAt(matcher.expected, path) :
       LET edited == WithoutKeyAt(matcher.actual, path, k)
       IN matcher' = [matcher EXCEPT
                        !.edit = [kind |-> "remove", path |-> path, key |-> k],
                        !.edited = edited,
                        !.editedResult = matchPartial(edited, matcher.expected)]
  /\ UNCHANGED <<runVars, watchVars, cliVars>>

NextPartial ==
  \/ CallMatchPartial
  \/ AddKeyAndCall
  \/ RemoveKeyAndCall

SpecPartial == InitPartial /\ [][NextPartial]_vars

\* ------------------------------------------------------------------------
\* Properties
\* ------------------------------------------------------------------------
SettledCalls == {i \in 1..Len(inv) : inv[i].status = "settled"}

\* the calls in which the executor's own result won the race
ReturnedCalls == {i \in SettledCalls : "finishReason" \in DOMAIN inv[i].execution}

Count(results, P(_)) == Cardinality({j \in 1..Len(results) : P(results[j])})


ExecutorNames == {executors[i].name : i \in 1..Len(executors)}

\* C1: the TestResults returned by run() satisfy
\* total == passed + failed == length of results.
C1_TotalInvariant ==
  pc = "done" =>
    /\ finalResults.total = finalResults.passed + finalResults.failed
    /\ finalResults.total = Len(finalResults.results)

C1_Witness ==
  /\ pc = "done"
  /\ \E j \in 1..Len(finalResults.results) :
       /\ finalResults.results[j].passed
  /\ \E j \in 1..Len(finalResults.results) :
       /\ ~finalResults.results[j].passed
       /\ finalResults.results[j].error.t = "undefined"
  /\ \E j \in 1..Len(finalResults.results) :
       finalResults.results[j].error = Str("Test timeout")
  /\ \E j \in 1..Len(finalResults.results) :
       finalResults.results[j].error = Str("API error")

\* C2: with more than one executor config the buckets of executorResults
\* partition results: every result lies in exactly one place of exactly one
\* bucket, and the buckets hold nothing else.
C2_ExecutorPartition ==
  (pc = "done" /\ Len(executors) > 1) =>
    LET results == finalResults.results
        buckets == finalResults.executorResults
        Places(r) == {<<name, j>> \in (DOMAIN buckets) \X (1..Len(results)) :
                        j <= Len(buckets[name].results)
                        /\ buckets[name].results[j] = r}
    IN /\ \A i \in 1..Len(results) : Cardinality(Places(results[i])) = 1
       /\ \A name \in DOMAIN buckets :
            /\ Len(buckets[name].results) <= Len(results)
            /\ \A j \in 1..Len(buckets[name].results) :
                 \E i \in 1..Len(results) : results[i] = buckets[name].results[j]

C2_Witness ==
  /\ pc = "done"
  /\ Len(executors) = 2
  /\ executors[1].name = executors[2].name
  /\ executors[1].config # executors[2].config
  /\ Len(finalResults.results) = 4

\* C3: without bail every (case, executor config) pair is executed exactly once
\* and yields exactly one result, so total == cases x executor configs.
C3_EveryPairOnce ==
  (pc = "done" /\ ~options.bail) =>
    /\ finalResults.total = Len(testCases) * Len(executors)
    /\ \A c \in 1..Len(testCases) : \A e \in 1..Len(executors) :
         Cardinality({j \in 1..Len(calls) : calls[j] = <<c, e>>}) = 1
    /\ \A c \in 1..Len(testCases) : \A name \in ExecutorNames :
         Cardinality({j \in 1..Len(finalResults.results) :
                        /\ finalResults.results[j].input = testCases[c].input
                        /\ finalResults.results[j].executor = name})
           = Cardinality({e \in 1..Len(executors) : executors[e].name = name})

C3_Witness ==
  /\ pc = "done"
  /\ ~options.bail
  /\ Len(testCases) = 2
  /\ Len(executors) = 2
  /\ ~finalResults.results[1].passed
  /\ finalResults.total = 4

\* C4: whenever the executor returns finishReason "error" or "timeout", the
\* EvalResult built by runSingle has passed == false, whatever expect is.
C4_ErrorOrTimeoutFails ==
  \A i \in ReturnedCalls :
    inv[i].execution.finishReason \in {"error", "timeout"} => ~inv[i].result.passed

\* C5: when the model call never resolves and a timer ends the attempt, the
\* EvalResult has passed == false and its error names the timeout.
C5_TimeoutIndicated ==
  \A i \in SettledCalls :
    (i \notin ReturnedCalls \/ inv[i].execution.finishReason = "timeout") =>
      /\ ~inv[i].result.passed
      /\ inv[i].result.error \in {Str("Execution timeout"), Str("Test timeout")}

\* C6: when the executor returns with a finishReason other than "error",
\* passed holds iff the case has no expect or match(output, expect) is true,
\* and the output and the expected value are kept on the EvalResult.
C6_PassedIffMatch ==
  \A i \in ReturnedCalls :
    inv[i].execution.finishReason # "error" =>
      LET testCase == testCases[index + 1]
      IN /\ inv[i].result.passed <=>
              \/ testCase.expect.t = "undefined"
              \/ match(inv[i].execution.output, testCase.expect)
         /\ inv[i].result.output = inv[i].execution.output
         /\ inv[i].result.expected = testCase.expect

C6_Witness ==
  \E i \in ReturnedCalls :
    /\ inv[i].execution.finishReason = "stop"
    /\ testCases[index + 1].expect = Paris
    /\ inv[i].result.output = London
    /\ inv[i].result.expected = Paris
    /\ ~inv[i].result.passed

\* C7: for an object expect, an output that has every expected key with the
\* expected value passes even if it has further keys.
C7_ExtraKeysIgnored ==
  \A i \in ReturnedCalls :
    LET expect == testCases[index + 1].expect
        output == inv[i].execution.output
    IN (/\ inv[i].execution.finishReason # "error"
        /\ expect.t = "object"
        /\ output.t = "object"
        /\ \A k \in DOMAIN expect.v :
             k \in DOMAIN output.v /\ output.v[k] = expect.v[k])
       => inv[i].result.passed

\* C8: with bail, if k is the first case with a failed result, no executor is
\* invoked for a case after k and results holds exactly the results of cases
\* 1..k, one for every configured executor, so length == k x executors and
\* failed >= 1.
C8_BailAtRow ==
  LET failedCases == {allResults[j].input : j \in {n \in 1..Len(allResults) :
                                                     ~allResults[n].passed}}
  IN (options.bail /\ failedCases # {}) =>
       LET k == Min(failedCases)
       IN /\ \A j \in 1..Len(calls) : calls[j][1] <= k
          /\ pc = "done" =>
               /\ Len(finalResults.results) = k * Len(executors)
               /\ finalResults.failed >= 1
               /\ \A c \in 1..k : \A name \in ExecutorNames :
                    Cardinality({j \in 1..Len(finalResults.results) :
                                   /\ finalResults.results[j].input = c
                                   /\ finalResults.results[j].executor = name})
                      = Cardinality({e \in 1..Len(executors) :
                                       executors[e].name = name})

C8_Witness ==
  /\ pc = "done"
  /\ options.bail
  /\ Len(testCases) = 2
  /\ Len(executors) = 2
  /\ Len(finalResults.results) = 2
  /\ ~finalResults.results[1].passed
  /\ finalResults.results[2].passed

\* C9 as stated: run() fails with the configuration error exactly when neither
\* options.executors nor the suite supplies an executor config.
C9_ErrorIffNeitherSupplies ==
  pc # "start" =>
    (runError = ConfigError <=>
       (Len(options.executors.list) = 0 /\ Len(executorConfigs.list) = 0))

\* C9 amended: run() uses options.executors when it is given (even when it is
\* empty) and otherwise the suite's configs, and fails with the configuration
\* error exactly when the list it uses is missing or empty; when it fails this
\* way no event was emitted, no executor invoked and no record tracked.
C9_ErrorIffUsedListEmpty ==
  pc # "start" =>
    LET used == IF options.executors.given
                THEN options.executors.list
                ELSE executorConfigs.list
    IN /\ runError = ConfigError <=> Len(used) = 0
       /\ runError = ConfigError =>
            /\ pc = "rejected"
            /\ events = <<>>
            /\ calls = <<>>
            /\ tracked = <<>>
       /\ runError # ConfigError =>
            /\ Len(executors) = Len(used)
            /\ \A i \in 1..Len(used) : executors[i].config = used[i]

C9_Witness ==
  /\ pc = "rejected"
  /\ runError = ConfigError
  /\ options.executors.given
  /\ Len(executorConfigs.list) > 0

\* C10: once the executor list is non-empty run() never fails: the
\* configuration error is the only error that can leave run().
C10_OnlyConfigError ==
  pc = "rejected" => runError = ConfigError

FailedExecutions ==
  {i \in SettledCalls :
     /\ IsVercel(i)
     /\ inv[i].cause.kind \in {"prompt threw", "model rejected", "executor timer"}}

\* C12: an executor made by createVercelAIExecutor never rejects; whenever a
\* collaborator fails it resolves to an ExecutionResult with output null, error
\* set to the message, and finishReason "timeout" when its timer fired and
\* "error" for anything else.
C12_FailureResult ==
  \A i \in FailedExecutions :
    /\ "finishReason" \in DOMAIN inv[i].execution
    /\ inv[i].execution.output = Null
    /\ inv[i].execution.error = Str(inv[i].cause.message)
    /\ inv[i].execution.finishReason =
         IF inv[i].cause.kind = "executor timer" THEN "timeout" ELSE "error"

\* C13: runSingle never rejects. When the executor has not settled by
\* testCase.timeout (30000 ms when the case sets none) it resolves to an
\* EvalResult with passed false, output null and error "Test timeout"; when the
\* executor throws or rejects it resolves to one with passed false, output
\* null and error equal to the thrown message.
C13_RunSingleCatches ==
  \A i \in SettledCalls :
    LET result == inv[i].result
        cause == inv[i].cause
    IN /\ "passed" \in DOMAIN result
       /\ cause.kind = "test timer" =>
            /\ ~result.passed
            /\ result.output = Null
            /\ result.error = Str("Test timeout")
            /\ (IsVercel(i) /\ IsNullish(testCases[index + 1].timeout)) =>
                 ExecutorTimeout(executors[i].config) >= 30000
       /\ cause.kind = "executor failed" =>
            /\ ~result.passed
            /\ result.output = Null
            /\ result.error = Str(cause.message)

C13_Witness ==
  \E i \in SettledCalls :
    /\ inv[i].cause = Cause("executor failed", "boom")
    /\ inv[i].result.error = Str("boom")
    /\ ~inv[i].result.passed

\* the EvalResult without the field that repeats the case's expect
Outcome(result) ==
  [input |-> result.input, output |-> result.output, passed |-> result.passed,
   execution_id |-> result.execution_id, error |-> result.error,
   executor |-> result.executor]

\* the calls whose executor returned finishReason "error"
ErrorReturns == {i \in ReturnedCalls : inv[i].execution.finishReason = "error"}

\* C14: when the executor returns finishReason "error", runSingle yields passed
\* false, error equal to ExecutionResult.error unchanged and output null, and
\* the outcome is the same for every expect: the matcher has no part in it.
C14_ErrorPropagated ==
  \A i \in ErrorReturns :
    /\ ~inv[i].result.passed
    /\ inv[i].result.error = inv[i].execution.error
    /\ inv[i].result.output = Null
    /\ \A e \in SingleExpects :
         Outcome(RunSingleResult([testCases[index + 1] EXCEPT !.expect = e],
                                 inv[i].execution, executors[i].name,
                                 inv[i].execution_id))
           = Outcome(inv[i].result)

\* the executor reported an error together with an output that equals expect
C14_Witness ==
  \E i \in ErrorReturns :
    /\ inv[i].execution.output = Paris
    /\ testCases[index + 1].expect = Paris
    /\ ~inv[i].result.passed

\* the progress events of a run that returned: per executed case one
\* test-start, then one test-complete per executor, in the order of results
ExpectedEvents(results) ==
  LET n == Len(executors)
  IN [k \in 1..(Len(results) \div n) * (n + 1) |->
        LET row == (k - 1) \div (n + 1) + 1
            off == (k - 1) % (n + 1)
        IN IF off = 0
           THEN [type |-> "test-start", current |-> row, total |-> Len(testCases),
                 input |-> testCases[row].input]
           ELSE [type |-> "test-complete", data |-> results[(row - 1) * n + off]]]

\* C15: a failing analytics client (one that throws on every track call, or
\* one that is disabled or has no key) never aborts run() and never changes
\* what it returns or emits: whatever the client does, run() is not rejected
\* on its account, it ends after the last case or after the first row with a
\* failure under bail, it returns the accumulated results and it has emitted
\* exactly the events of the executed rows.
C15_SinkFailureHarmless ==
  /\ runError # SinkError
  /\ pc = "done" =>
       LET n == Len(executors)
           rows == Len(allResults) \div n
       IN /\ Len(allResults) = rows * n
          /\ \/ rows = Len(testCases)
             \/ /\ options.bail
                /\ \E j \in (rows - 1) * n + 1..rows * n : ~allResults[j].passed
          /\ finalResults.results = allResults
          /\ finalResults.total = Len(allResults)
          /\ finalResults.passed = CountPassed(allResults)
          /\ finalResults.failed = CountFailed(allResults)
          /\ events = ExpectedEvents(allResults)

C15_Witness ==
  /\ pc = "done"
  /\ sink = "throws"
  /\ Len(finalResults.results) >= 2
  /\ Len(tracked) = Len(finalResults.results) + 1
  /\ \A k \in 1..Len(tracked) : ~tracked[k].queued

\* C16: during one run() the analytics client is offered exactly one test-case
\* record per EvalResult of results (same execution_id and passed value), then
\* exactly one test-run record whose totals are those of the returned
\* TestResults; a working client queues them all. This holds as well when bail
\* ends the run early.
C16_RecordsOffered ==
  pc = "done" =>
    LET results == finalResults.results
        m == Len(results)
    IN /\ Len(tracked) = m + 1
       /\ \A j \in 1..m :
            /\ tracked[j].record.kind = "test_case"
            /\ tracked[j].record.execution_id = results[j].execution_id
            /\ tracked[j].record.passed = results[j].passed
       /\ \A j, k \in 1..m : j # k => results[j].execution_id # results[k].execution_id
       /\ tracked[m + 1].record =
            [kind |-> "test_run", total_tests |-> finalResults.total,
             passed_tests |-> finalResults.passed,
             failed_tests |-> finalResults.failed]
       /\ sink = "working" => \A k \in 1..m + 1 : tracked[k].queued

\* bail ended the run before the last case
C16_Witness ==
  /\ pc = "done"
  /\ options.bail
  /\ sink = "working"
  /\ Len(executors) = 2
  /\ Len(finalResults.results) < Len(testCases) * Len(executors)
  /\ Len(tracked) = Len(finalResults.results) + 1

\* the executors whose config resolves to the display label name
Labelled(name) ==
  {i \in 1..Len(executors) : extractModelName(executors[i].config.model) = name}

\* C17: executorResults has one bucket per distinct display label. In every
\* bucket passed + failed is the number of its results; when run() returns, the
\* bucket of a label holds one result per executed case for every config that
\* resolves to that label, so configs with distinct labels have a bucket each
\* (two executors and one case: two keys, each with passed + failed = 1) and
\* configs with the same label share one bucket with the results of all of them.
C17_BucketPerLabel ==
  pc \in {"loop", "await", "finalize", "done"} =>
    /\ DOMAIN executorResults =
         {extractModelName(executors[i].config.model) : i \in 1..Len(executors)}
    /\ \A name \in DOMAIN executorResults :
         LET bucket == executorResults[name]
         IN /\ bucket.passed + bucket.failed = Len(bucket.results)
            /\ \A j \in 1..Len(bucket.results) : bucket.results[j].executor = name
            /\ pc = "done" =>
                 /\ finalResults.executorResults[name] = bucket
                 /\ Len(bucket.results) =
                      (Len(allResults) \div Len(executors)) * Cardinality(Labelled(name))

\* two configs with one label, two cases: one bucket with four results
C17_Witness ==
  /\ pc = "done"
  /\ Len(executors) = 2
  /\ executors[1].config # executors[2].config
  /\ Cardinality(DOMAIN finalResults.executorResults) = 1
  /\ \E name \in DOMAIN finalResults.executorResults :
       /\ Len(finalResults.executorResults[name].results) = 4
       /\ finalResults.executorResults[name].passed = 1
       /\ finalResults.executorResults[name].failed = 3

\* strict structural equality of two values
RECURSIVE StructurallyEqual(_, _)
StructurallyEqual(a, b) ==
  IF a.t = "array"
  THEN /\ b.t = "array"
       /\ Len(a.v) = Len(b.v)
       /\ \A i \in 1..Len(a.v) : StructurallyEqual(a.v[i], b.v[i])
  ELSE IF a.t = "object"
  THEN /\ b.t = "object"
       /\ DOMAIN a.v = DOMAIN b.v
       /\ \A k \in DOMAIN a.v : StructurallyEqual(a.v[k], b.v[k])
  ELSE a.t = b.t /\ a = b

\* C18: match(actual, expected) is strict structural equality: primitives
\* match by value, an array matches only an array of the same length whose
\* elements match pairwise, an object matches only an object with exactly the
\* same keys whose values match; an array never matches a non-array object.
C18_StrictStructuralEquality ==
  matcher.called =>
    matcher.result = StructurallyEqual(matcher.actual, matcher.expected)

\* entry k of the log is a file event; a run was started after entry k
EventAt(k) == k <= Len(watchLog) /\ watchLog[k].type \in {"change", "add"}
RunAfter(k) == \E j \in k + 1..Len(watchLog) : watchLog[j].type = "run"

\* C19: in watch mode every change/add event on a watched file is eventually
\* followed by a findAndRun that starts after the event, also when the event
\* arrives during a run or while a debounce timer is pending.
C19_EveryEventRerun ==
  \A k \in 1..3 * MaxArrivals + 2 : [](EventAt(k) => <>RunAfter(k))

\* C20: with --bail the run stops on the first failure: once a test result has
\* failed no further test case is executed, neither a later case of the same
\* prompt nor a case of a later prompt or file, for .js and .ts prompt files.
C20_BailStopsAll ==
  bail => \A j \in 1..Len(executed) - 1 : executed[j].passed

\* the case and the executor of the invocation that produced a result
InvocationOf(result) == calls[result.execution_id]

\* the test-start events and the test-complete events, each in emission order
TestStarts == SelectSeq(events, LAMBDA e : e.type = "test-start")
TestCompletes == SelectSeq(events, LAMBDA e : e.type = "test-complete")

\* C21: rows are processed one after the other in declaration order: the
\* invocations are made case by case, and while the invocations of a case are
\* in flight the results of every earlier case, of all its executors, are
\* already in results, have been reported as test-complete events and have
\* been handed to the analytics client.
C21_RowsSequential ==
  LET n == Len(executors)
  IN /\ \A k \in 1..Len(calls) : calls[k] = <<((k - 1) \div n) + 1, ((k - 1) % n) + 1>>
     /\ \A k \in 1..Len(calls) : Len(allResults) >= (calls[k][1] - 1) * n
     /\ pc = "await" =>
          /\ Len(calls) = (index + 1) * n
          /\ Len(allResults) = index * n
          /\ \A j \in 1..Len(allResults) : InvocationOf(allResults[j])[1] <= index
          /\ events = ExpectedEvents(allResults) \o <<TestStartEvent>>
          /\ Len(tracked) = Len(allResults)
          /\ \A j \in 1..Len(allResults) :
               tracked[j].record = TestCaseRecord(allResults[j])

\* the second case is in flight after a first case that one executor failed
C21_Witness ==
  /\ pc = "await"
  /\ index = 1
  /\ Len(executors) = 2
  /\ Len(allResults) = 2
  /\ ~allResults[1].passed
  /\ allResults[2].passed
  /\ inv[1].status = "pending"
  /\ inv[2].status = "pending"

\* C22: within a row runSingle is called for every configured executor before
\* run() waits for any of them, so an executor that has not settled never
\* keeps another one of the row from starting, and run() leaves the row only
\* when all of its invocations have settled.
C22_RowDispatchedTogether ==
  /\ [](pc = "await" =>
          /\ Len(inv) = Len(executors)
          /\ \A e \in 1..Len(executors) :
               \E k \in 1..Len(calls) : calls[k] = <<index + 1, e>>
          /\ Len(allResults) = index * Len(executors))
  /\ [][(pc = "await" /\ pc' # "await") =>
          /\ Len(inv) = Len(executors)
          /\ \A i \in 1..Len(inv) : inv[i].status = "settled"]_vars

\* the second executor was started and has settled while the first, called
\* before it, is still pending
C22_Witness ==
  /\ pc = "await"
  /\ Len(executors) = 2
  /\ inv[1].status = "pending"
  /\ inv[2].status = "settled"
  /\ \E k \in 1..Len(calls) : calls[k] = <<index + 1, 2>>

\* C23: every started row has exactly one test-start event, with current the
\* 1-based row and total the number of test cases, emitted before an executor
\* is invoked for the row; a later test-start comes only after the N
\* test-complete events of the row before it; a row that bail skipped has no
\* event.
C23_EventsPerRow ==
  LET n == Len(executors)
      rows == {calls[k][1] : k \in 1..Len(calls)}
      starts == TestStarts
  IN /\ \A k \in 1..Len(starts) :
          /\ starts[k].current = k
          /\ starts[k].total = Len(testCases)
          /\ starts[k].input = testCases[k].input
     /\ \A r \in rows : r <= Len(starts)
     /\ Len(starts) <= Cardinality(rows) + 1
     /\ pc = "await" => Len(starts) = index + 1
     /\ \A j \in 1..Len(events) :
          events[j].type = "test-start" <=> (j - 1) % (n + 1) = 0
     /\ pc = "done" =>
          /\ Len(starts) = Len(allResults) \div n
          /\ Len(events) = Len(starts) * (n + 1)

\* bail ended a run of two cases and two executors after its first row
C23_Witness ==
  /\ pc = "done"
  /\ options.bail
  /\ Len(testCases) = 2
  /\ Len(executors) = 2
  /\ Len(events) = 3
  /\ events[1].current = 1
  /\ events[1].total = 2

\* C29: the results of a row are appended to results and to the buckets, and
\* reported as test-complete events, in the order of the executor configs and
\* only once every invocation of the row has settled, in whatever order the
\* invocations settle: results[r*N + i] is the result of case r and executor
\* config i, a bucket holds its label's results in that order, and the
\* test-complete events follow results.
C29_ResultsInConfigOrder ==
  LET n == Len(executors)
      completes == TestCompletes
  IN /\ \A j \in 1..Len(allResults) :
          /\ InvocationOf(allResults[j]) = <<((j - 1) \div n) + 1, ((j - 1) % n) + 1>>
          /\ allResults[j].input = testCases[((j - 1) \div n) + 1].input
          /\ allResults[j].executor = executors[((j - 1) % n) + 1].name
     /\ pc = "await" => Len(allResults) = index * n /\ Len(completes) = index * n
     /\ pc \in {"loop", "await", "finalize", "done"} =>
          \A name \in DOMAIN executorResults :
            executorResults[name].results =
              SelectSeq(allResults, LAMBDA r : r.executor = name)
     /\ Len(completes) <= Len(allResults)
     /\ \A j \in 1..Len(completes) : completes[j].data = allResults[j]

\* the second executor of a row settled before the first, and the row was
\* filed with the first executor's result first
C29_Witness ==
  /\ pc \in {"loop", "finalize"}
  /\ settleOrder = <<2, 1>>
  /\ Len(executors) = 2
  /\ executors[1].name # executors[2].name
  /\ Len(allResults) >= 2
  /\ allResults[Len(allResults) - 1].executor = executors[1].name
  /\ allResults[Len(allResults)].executor = executors[2].name
  /\ TestCompletes[Len(allResults)].data.executor = executors[2].name

\* the findAndRun calls that were started and have not settled
InFlight ==
  Cardinality({k \in 1..Len(watchLog) : watchLog[k].type = "run"})
    - Cardinality({k \in 1..Len(watchLog) : watchLog[k].type = "settled"})

\* C30: the Watcher never has two runs in flight, whatever the interleaving of
\* file events, timer expiries and 'a' key presses: isRunning is true exactly
\* while one findAndRun is in flight, and it is false again once the run has
\* resolved or rejected, so that a later trigger starts a new run.
C30_OneRunAtATime ==
  /\ InFlight \in {0, 1}
  /\ watcher.isRunning <=> InFlight = 1
  /\ \A k \in 1..Len(watchLog) - 1 :
       watchLog[k].type = "run" => watchLog[k + 1].type # "run"
  /\ (Len(watchLog) > 0 /\ watchLog[Len(watchLog)].type = "settled") =>
       ~watcher.isRunning

\* a run was rejected, a key press came during the next run, that run
\* resolved, and a file change started a third run
C30_Witness ==
  \E j \in 1..Len(watchLog) :
    /\ watchLog[j] = WatchEntry("settled", "rejected")
    /\ \E k \in j + 1..Len(watchLog) - 4 :
         /\ watchLog[k].type = "run"
         /\ watchLog[k + 1].type = "key"
         /\ watchLog[k + 2] = WatchEntry("settled", "resolved")
         /\ watchLog[k + 3].type = "change"
         /\ watchLog[k + 4].type = "run"
    /\ InFlight = 1

\* C24: an ExecutionResult does not change after the executor returned it:
\* its steps, and the steps of the EvalResult built from it, stay what they
\* were at the return, also when the executor returned on its timer and the
\* model call it left behind completes further steps or settles.
C24_ResultImmutable ==
  exec.pc = "returned" =>
    /\ StepsOf(exec.returned) = exec.stepsAtReturn
    /\ StepsOf([steps |-> exec.evalSteps]) = exec.stepsAtReturn

\* the tool result a reply ends with: its result, or its output when it has
\* no result
LastToolResult(reply) ==
  LET last == reply.toolResults[Len(reply.toolResults)]
  IN IF last.result.t # "undefined" THEN last.result ELSE last.output

\* C25: when the model call ends with no final text and at least one tool
\* result, the executor's output is the last tool result, whether the prompt
\* declares a structured-output schema or not.
C25_ToolResultFallback ==
  (/\ exec.pc = "returned"
   /\ exec.call = "resolved"
   /\ exec.returned.finishReason \in {"stop", "tool-calls"}
   /\ exec.reply # NoResult
   /\ exec.reply.text = ""
   /\ Len(exec.reply.toolResults) > 0) =>
    StructurallyEqual(exec.returned.output, LastToolResult(exec.reply))

\* records are waiting in the queue of a client that tracks
ClientQueued == ShouldTrack /\ ~IsEmpty(client.queue)

\* every record taken by a tracking client is either in the queue, once and
\* in the array of its track method, or was in one batch handed to fetch; a
\* queue with records has its timer pending and is below the threshold
ClientSafe ==
  ShouldTrack =>
    /\ Len(client.sent) = client.offered
    /\ \A id \in 1..client.offered :
         client.sent[id] + (IF id \in BatchOf(client.queue) THEN 1 ELSE 0) = 1
    /\ Cardinality(BatchOf(client.queue)) = TotalEvents(client.queue)
    /\ \A k \in DOMAIN client.queue : \A i \in 1..Len(client.queue[k]) :
         client.queue[k][i] = ClientRecord(client.queue[k][i].id)
           /\ client.queue[k][i].kind = k
    /\ ClientQueued => client.flushTimeout
    /\ TotalEvents(client.queue) < FlushThreshold

\* C28: with tracking enabled every record passed to a track method ends up in
\* exactly one batch handed to the transport, for every interleaving of track
\* calls, the debounce timer, the threshold flush, flush() and beforeExit: a
\* record is never sent twice or lost, and a queue with records is eventually
\* flushed.
C28_EveryRecordInOneBatch ==
  /\ []ClientSafe
  /\ ClientQueued ~> ~ClientQueued

\* the records up to the threshold went out, the last batch at the threshold;
\* the next record waits for the timer
C28_Witness ==
  /\ ShouldTrack
  /\ client.offered = FlushThreshold + 1
  /\ client.flushedBy = "threshold"
  /\ \A id \in 1..FlushThreshold : client.sent[id] = 1
  /\ BatchOf(client.queue) = {FlushThreshold + 1}
  /\ client.flushTimeout

\* every element of expected has an element of actual of its own that it
\* partially matches
DistinctWitnesses(actual, expected) ==
  \E f \in [1..Len(expected.v) -> 1..Len(actual.v)] :
    /\ \A i, j \in 1..Len(expected.v) : i # j => f[i] # f[j]
    /\ \A i \in 1..Len(expected.v) : partialEqual(actual.v[f[i]], expected.v[i])

\* C26: for arrays matchPartial is true iff the elements of expected can be
\* matched, in any order, to different elements of actual, so that an
\* expected array with two equal items does not match an actual array holding
\* that item once.
C26_DistinctWitnessPerElement ==
  (matcher.called /\ matcher.actual.t = "array" /\ matcher.expected.t = "array") =>
    matcher.result = DistinctWitnesses(matcher.actual, matcher.expected)

\* C27: for objects matchPartial is monotone in the keys of actual: when it
\* is true, it stays true after a key that expected does not name is added to
\* an object of actual, at the top or nested, and it becomes false after a
\* key that expected names is removed.
C27_MonotoneInKeys ==
  (/\ matcher.called
   /\ matcher.result
   /\ matcher.actual.t = "object"
   /\ matcher.expected.t = "object") =>
    /\ matcher.edit.kind = "add" => matcher.editedResult
    /\ matcher.edit.kind = "remove" => ~matcher.editedResult

\* a match survived a key added to a nested object
C27_Witness ==
  /\ matcher.called
  /\ matcher.result
  /\ matcher.edit.kind = "add"
  /\ Len(matcher.edit.path) = 1
  /\ matcher.expected = Obj1("b", Obj1("a", Num(1)))
  /\ matcher.editedResult

====
